---- MODULE Spec2Model ----
(***************************************************************************)
(* Model of examples/Notebooks_examples/Example_Bagging.ipynb.             *)
(*                                                                         *)
(* The notebook is a straight-line Python script spread over code cells.   *)
(* Each statement is one step.  Python variables hold references: every    *)
(* object created by a library call gets a fresh id, arrays are sets of    *)
(* sample indices (rows), and a call log records every library call with   *)
(* the objects it received.  Any library call may raise; the exception is  *)
(* not caught and stops the run.                                           *)
(***************************************************************************)
EXTENDS Integers, Sequences, FiniteSets, TLC

\* number of samples of the loaded dataset (569 in load_breast_cancer)
NSamples == 5

Samples == 1..NSamples

\* ------------------------------------------------------------------------
\* Cell 1: imports.  The package a class is imported from is its family.
\* ------------------------------------------------------------------------
DCS == {"OLA", "APriori", "MCB"}
DES == {"DESP", "KNORAU", "KNORAE", "METADES"}

Family(cls) == IF cls \in DCS THEN "dcs" ELSE IF cls \in DES THEN "des" ELSE "none"

\* ------------------------------------------------------------------------
\* The statements of the code cells, in source order.  `line` is the line
\* of the .ipynb file, `tgt` the assigned variables, `recv` the variable
\* the method is called on, `args` the variables passed.
\* ------------------------------------------------------------------------
Cell3_SplitAll ==
  << [line |-> 62, op |-> "load", tgt |-> <<"X", "y">>],
     [line |-> 66, op |-> "split", args |-> <<"X", "y">>,
      tgt |-> <<"X_train", "X_test", "y_train", "y_test">>, num |-> 33, den |-> 100],
     [line |-> 69, op |-> "scaler", tgt |-> <<"scalar">>],
     [line |-> 70, op |-> "fit_transform", recv |-> "scalar",
      args |-> <<"X_train">>, tgt |-> <<"X_train">>],
     [line |-> 71, op |-> "transform", recv |-> "scalar",
      args |-> <<"X_test">>, tgt |-> <<"X_test">>],
     [line |-> 74, op |-> "split", args |-> <<"X", "y">>,
      tgt |-> <<"X_train", "X_dsel", "y_train", "y_dsel">>, num |-> 1, den |-> 2] >>

Cell3 ==
  << [line |-> 62, op |-> "load", tgt |-> <<"X", "y">>],
     [line |-> 66, op |-> "split", args |-> <<"X", "y">>,
      tgt |-> <<"X_train", "X_test", "y_train", "y_test">>, num |-> 33, den |-> 100],
     [line |-> 69, op |-> "scaler", tgt |-> <<"scalar">>],
     [line |-> 70, op |-> "fit_transform", recv |-> "scalar",
      args |-> <<"X_train">>, tgt |-> <<"X_train">>],
     [line |-> 71, op |-> "transform", recv |-> "scalar",
      args |-> <<"X_test">>, tgt |-> <<"X_test">>],
     [line |-> 74, op |-> "split", args |-> <<"X_train", "y_train">>,
      tgt |-> <<"X_train", "X_dsel", "y_train", "y_dsel">>, num |-> 1, den |-> 2] >>

Cell5_FitOnAll ==
  << [line |-> 110, op |-> "model", tgt |-> <<"model">>, max_iter |-> 10],
     [line |-> 113, op |-> "pool", tgt |-> <<"pool_classifiers">>,
      args |-> <<"model">>, n_estimators |-> 10],
     [line |-> 114, op |-> "pool_fit", recv |-> "pool_classifiers",
      args |-> <<"X", "y">>] >>

Cell5 ==
  << [line |-> 110, op |-> "model", tgt |-> <<"model">>, max_iter |-> 10],
     [line |-> 113, op |-> "pool", tgt |-> <<"pool_classifiers">>,
      args |-> <<"model">>, n_estimators |-> 10],
     [line |-> 114, op |-> "pool_fit", recv |-> "pool_classifiers",
      args |-> <<"X_train", "y_train">>] >>

\* `heading` is the comment the constructor call stands under
\* (line 133 "# DES techniques", line 137 "# DCS techniques")
Cell7 ==
  << [line |-> 134, op |-> "construct", tgt |-> <<"knorau">>, cls |-> "KNORAU",
      args |-> <<"pool_classifiers">>, heading |-> "des"],
     [line |-> 135, op |-> "construct", tgt |-> <<"kne">>, cls |-> "KNORAE",
      args |-> <<"pool_classifiers">>, heading |-> "des"],
     [line |-> 136, op |-> "construct", tgt |-> <<"desp">>, cls |-> "DESP",
      args |-> <<"pool_classifiers">>, heading |-> "des"],
     [line |-> 138, op |-> "construct", tgt |-> <<"ola">>, cls |-> "OLA",
      args |-> <<"pool_classifiers">>, heading |-> "dcs"],
     [line |-> 139, op |-> "construct", tgt |-> <<"mcb">>, cls |-> "MCB",
      args |-> <<"pool_classifiers">>, heading |-> "dcs"],
     [line |-> 140, op |-> "construct", tgt |-> <<"apriori">>, cls |-> "APriori",
      args |-> <<"pool_classifiers">>, heading |-> "dcs"],
     [line |-> 141, op |-> "construct", tgt |-> <<"meta">>, cls |-> "METADES",
      args |-> <<"pool_classifiers">>, heading |-> "dcs"] >>

Cell9_FitOnTrain ==
  << [line |-> 159, op |-> "fit", recv |-> "knorau", args |-> <<"X_dsel", "y_dsel">>],
     [line |-> 160, op |-> "fit", recv |-> "kne", args |-> <<"X_dsel", "y_dsel">>],
     [line |-> 161, op |-> "fit", recv |-> "desp", args |-> <<"X_dsel", "y_dsel">>],
     [line |-> 162, op |-> "fit", recv |-> "ola", args |-> <<"X_train", "y_train">>],
     [line |-> 163, op |-> "fit", recv |-> "mcb", args |-> <<"X_dsel", "y_dsel">>],
     [line |-> 164, op |-> "fit", recv |-> "apriori", args |-> <<"X_dsel", "y_dsel">>],
     [line |-> 165, op |-> "fit", recv |-> "meta", args |-> <<"X_dsel", "y_dsel">>] >>

Cell9 ==
  << [line |-> 159, op |-> "fit", recv |-> "knorau", args |-> <<"X_dsel", "y_dsel">>],
     [line |-> 160, op |-> "fit", recv |-> "kne", args |-> <<"X_dsel", "y_dsel">>],
     [line |-> 161, op |-> "fit", recv |-> "desp", args |-> <<"X_dsel", "y_dsel">>],
     [line |-> 162, op |-> "fit", recv |-> "ola", args |-> <<"X_dsel", "y_dsel">>],
     [line |-> 163, op |-> "fit", recv |-> "mcb", args |-> <<"X_dsel", "y_dsel">>],
     [line |-> 164, op |-> "fit", recv |-> "apriori", args |-> <<"X_dsel", "y_dsel">>],
     [line |-> 165, op |-> "fit", recv |-> "meta", args |-> <<"X_dsel", "y_dsel">>] >>

Cell11 ==
  << [line |-> 196, op |-> "score", recv |-> "ola", args |-> <<"X_test", "y_test">>,
      label |-> "OLA"],
     [line |-> 197, op |-> "score", recv |-> "apriori", args |-> <<"X_test", "y_test">>,
      label |-> "A priori"],
     [line |-> 198, op |-> "score", recv |-> "knorau", args |-> <<"X_test", "y_test">>,
      label |-> "KNORA-Union"],
     [line |-> 199, op |-> "score", recv |-> "kne", args |-> <<"X_test", "y_test">>,
      label |-> "KNORA-Eliminate"],
     [line |-> 200, op |-> "score", recv |-> "desp", args |-> <<"X_test", "y_test">>,
      label |-> "DESP"],
     [line |-> 201, op |-> "score", recv |-> "apriori", args |-> <<"X_test", "y_test">>,
      label |-> "META-DES"] >>

Program_ScoreBeforeFit == Cell3 \o Cell5 \o Cell7 \o Cell11 \o Cell9

Program == Cell3 \o Cell5 \o Cell7 \o Cell9 \o Cell11

NSteps == Len(Program)

\* the output stored in the notebook file for cell 5 (execution_count 5)
RecordedOut5 == [cls |-> "BaggingClassifier", cv |-> 3, max_iter |-> 10,
                 n_estimators |-> 100]

ArrayVars == {"X", "y", "X_train", "X_test", "y_train", "y_test", "X_dsel", "y_dsel"}
EstVars == {"knorau", "kne", "desp", "ola", "mcb", "apriori", "meta"}

VARIABLES
  pc,                \* index in Program of the next statement
  failed,            \* an exception was raised and ended the run
  nextId,            \* id of the next object created
  arr,               \* ArrayVars -> the array object the variable is bound to
  scalar,            \* the StandardScaler object
  model,             \* the CalibratedClassifierCV(Perceptron) object
  pool_classifiers,  \* the BaggingClassifier object
  est,               \* EstVars -> the dynamic-selection estimator object
  calls,             \* log of the library calls made so far
  printed,           \* the lines printed by this run
  Out5               \* the output shown under cell 5

vars == <<pc, failed, nextId, arr, scalar, model, pool_classifiers, est,
          calls, printed, Out5>>

\* id 0 stands for a name that is not bound yet
Unbound == [id |-> 0, rows |-> {}, scaled |-> FALSE, stats |-> {}, by |-> 0]
NoEst == [id |-> 0, cls |-> "", pool |-> 0, fitted |-> FALSE, fit_rows |-> {},
          fitX |-> 0, fitY |-> 0]

Array(id, rows, scaled, stats, by) ==
  [id |-> id, rows |-> rows, scaled |-> scaled, stats |-> stats, by |-> by]

Event(st, obj, ref, args, note) ==
  [line |-> st.line, op |-> st.op, recv |-> IF "recv" \in DOMAIN st THEN st.recv ELSE st.tgt[1],
   obj |-> obj, ref |-> ref, args |-> args, note |-> note]

Init ==
  /\ pc = 1
  /\ failed = FALSE
  /\ nextId = 1
  /\ arr = [v \in ArrayVars |-> Unbound]
  /\ scalar = [id |-> 0, fitted |-> FALSE, fit_rows |-> {}]
  /\ model = [id |-> 0, cls |-> "", base |-> "", max_iter |-> 0]
  /\ pool_classifiers = [id |-> 0, base_estimator |-> 0, n_estimators |-> 0,
                         fitted |-> FALSE, fit_rows |-> {}, fitX |-> 0, fitY |-> 0]
  /\ est = [e \in EstVars |-> NoEst]
  /\ calls = << >>
  /\ printed = << >>
  /\ Out5 = RecordedOut5

\* the interpreter runs the next statement only while no exception was raised
Running_AfterError == pc <= NSteps

Running == ~failed /\ pc <= NSteps

Stmt == Program[pc]

Bound(names) == \A i \in 1..Len(names) : arr[names[i]].id # 0

\* ------------------------------------------------------------------------
\* train_test_split(a, b, test_size=num/den): n_test = ceil(test_size * n),
\* n_train = n - n_test; the same random row selection is applied to a and b
\* ------------------------------------------------------------------------
NTest(n, num, den) == (n * num + den - 1) \div den

TrainTestSplit(rows, num, den) ==
  { [train |-> rows \ t, test |-> t] :
      t \in { s \in SUBSET rows : Cardinality(s) = NTest(Cardinality(rows), num, den) } }

\* data = load_breast_cancer(); X = data.data; y = data.target
Load ==
  /\ Running /\ Stmt.op = "load"
  /\ arr' = [arr EXCEPT !["X"] = Array(nextId, Samples, FALSE, {}, 63),
                        !["y"] = Array(nextId + 1, Samples, FALSE, {}, 64)]
  /\ nextId' = nextId + 2
  /\ calls' = Append(calls, Event(Stmt, 0, 0, << >>, ""))
  /\ pc' = pc + 1
  /\ UNCHANGED <<failed, scalar, model, pool_classifiers, est, printed, Out5>>

\* a1, a2, b1, b2 = train_test_split(a, b, test_size=...)
Split ==
  /\ Running /\ Stmt.op = "split"
  /\ Bound(Stmt.args)
  /\ LET a == arr[Stmt.args[1]]
         b == arr[Stmt.args[2]]
         n == Cardinality(a.rows)
     IN /\ a.rows = b.rows
        /\ n - NTest(n, Stmt.num, Stmt.den) > 0
        /\ \E sp \in TrainTestSplit(a.rows, Stmt.num, Stmt.den) :
             arr' = [arr EXCEPT
               ![Stmt.tgt[1]] = Array(nextId, sp.train, a.scaled, a.stats, Stmt.line),
               ![Stmt.tgt[2]] = Array(nextId + 1, sp.test, a.scaled, a.stats, Stmt.line),
               ![Stmt.tgt[3]] = Array(nextId + 2, sp.train, b.scaled, b.stats, Stmt.line),
               ![Stmt.tgt[4]] = Array(nextId + 3, sp.test, b.scaled, b.stats, Stmt.line)]
        /\ calls' = Append(calls, Event(Stmt, 0, 0, <<a, b>>, ""))
  /\ nextId' = nextId + 4
  /\ pc' = pc + 1
  /\ UNCHANGED <<failed, scalar, model, pool_classifiers, est, printed, Out5>>

\* scalar = StandardScaler()
NewScaler ==
  /\ Running /\ Stmt.op = "scaler"
  /\ scalar' = [id |-> nextId, fitted |-> FALSE, fit_rows |-> {}]
  /\ nextId' = nextId + 1
  /\ calls' = Append(calls, Event(Stmt, nextId, 0, << >>, ""))
  /\ pc' = pc + 1
  /\ UNCHANGED <<failed, arr, model, pool_classifiers, est, printed, Out5>>

\* X_train = scalar.fit_transform(X_train)
FitTransform ==
  /\ Running /\ Stmt.op = "fit_transform"
  /\ scalar.id # 0 /\ Bound(Stmt.args)
  /\ LET a == arr[Stmt.args[1]]
     IN /\ scalar' = [scalar EXCEPT !.fitted = TRUE, !.fit_rows = a.rows]
        /\ arr' = [arr EXCEPT ![Stmt.tgt[1]] = Array(nextId, a.rows, TRUE, a.rows, Stmt.line)]
        /\ calls' = Append(calls, Event(Stmt, scalar.id, 0, <<a>>, ""))
  /\ nextId' = nextId + 1
  /\ pc' = pc + 1
  /\ UNCHANGED <<failed, model, pool_classifiers, est, printed, Out5>>

\* X_test = scalar.transform(X_test)
Transform ==
  /\ Running /\ Stmt.op = "transform"
  /\ scalar.id # 0 /\ Bound(Stmt.args)
  /\ LET a == arr[Stmt.args[1]]
     IN /\ arr' = [arr EXCEPT
             ![Stmt.tgt[1]] = Array(nextId, a.rows, TRUE, scalar.fit_rows, Stmt.line)]
        /\ calls' = Append(calls, Event(Stmt, scalar.id, 0, <<a>>, ""))
  /\ nextId' = nextId + 1
  /\ pc' = pc + 1
  /\ UNCHANGED <<failed, scalar, model, pool_classifiers, est, printed, Out5>>

\* model = CalibratedClassifierCV(Perceptron(max_iter=10))
NewModel ==
  /\ Running /\ Stmt.op = "model"
  /\ model' = [id |-> nextId, cls |-> "CalibratedClassifierCV", base |-> "Perceptron",
               max_iter |-> Stmt.max_iter]
  /\ nextId' = nextId + 1
  /\ calls' = Append(calls, Event(Stmt, nextId, 0, << >>, ""))
  /\ pc' = pc + 1
  /\ UNCHANGED <<failed, arr, scalar, pool_classifiers, est, printed, Out5>>

\* pool_classifiers = BaggingClassifier(model, n_estimators=10)
NewPool ==
  /\ Running /\ Stmt.op = "pool"
  /\ model.id # 0
  /\ pool_classifiers' = [id |-> nextId, base_estimator |-> model.id,
                          n_estimators |-> Stmt.n_estimators, fitted |-> FALSE,
                          fit_rows |-> {}, fitX |-> 0, fitY |-> 0]
  /\ nextId' = nextId + 1
  /\ calls' = Append(calls, Event(Stmt, nextId, model.id, << >>, ""))
  /\ pc' = pc + 1
  /\ UNCHANGED <<failed, arr, scalar, model, est, printed, Out5>>

\* pool_classifiers.fit(X_train, y_train); last expression of cell 5, so the
\* fitted pool's repr replaces the cell's output
FitPool ==
  /\ Running /\ Stmt.op = "pool_fit"
  /\ pool_classifiers.id # 0 /\ Bound(Stmt.args)
  /\ LET a == arr[Stmt.args[1]]
         b == arr[Stmt.args[2]]
     IN /\ a.rows = b.rows
        /\ pool_classifiers' = [pool_classifiers EXCEPT !.fitted = TRUE,
                                  !.fit_rows = a.rows, !.fitX = a.id, !.fitY = b.id]
        /\ calls' = Append(calls, Event(Stmt, pool_classifiers.id, 0, <<a, b>>, ""))
  /\ Out5' = [cls |-> "BaggingClassifier", cv |-> 3, max_iter |-> model.max_iter,
              n_estimators |-> pool_classifiers.n_estimators]
  /\ pc' = pc + 1
  /\ UNCHANGED <<failed, nextId, arr, scalar, model, est, printed>>

\* e = CLS(pool_classifiers)
Construct ==
  /\ Running /\ Stmt.op = "construct"
  /\ pool_classifiers.id # 0
  /\ est' = [est EXCEPT ![Stmt.tgt[1]] =
               [NoEst EXCEPT !.id = nextId, !.cls = Stmt.cls, !.pool = pool_classifiers.id]]
  /\ nextId' = nextId + 1
  /\ calls' = Append(calls, Event(Stmt, nextId, pool_classifiers.id, << >>, Stmt.heading))
  /\ pc' = pc + 1
  /\ UNCHANGED <<failed, arr, scalar, model, pool_classifiers, printed, Out5>>

\* e.fit(X_dsel, y_dsel)
Fit ==
  /\ Running /\ Stmt.op = "fit"
  /\ est[Stmt.recv].id # 0 /\ Bound(Stmt.args)
  /\ LET a == arr[Stmt.args[1]]
         b == arr[Stmt.args[2]]
     IN /\ a.rows = b.rows
        /\ est' = [est EXCEPT ![Stmt.recv] =
                     [@ EXCEPT !.fitted = TRUE, !.fit_rows = a.rows,
                               !.fitX = a.id, !.fitY = b.id]]
        /\ calls' = Append(calls, Event(Stmt, est[Stmt.recv].id, est[Stmt.recv].pool,
                                        <<a, b>>, ""))
  /\ pc' = pc + 1
  /\ UNCHANGED <<failed, nextId, arr, scalar, model, pool_classifiers, printed, Out5>>

\* print('Classification accuracy L: ', e.score(X_test, y_test))
\* the accuracy is correct / total for some number of correct predictions
ScorePrint ==
  /\ Running /\ Stmt.op = "score"
  /\ est[Stmt.recv].id # 0 /\ Bound(Stmt.args)
  /\ LET a == arr[Stmt.args[1]]
         b == arr[Stmt.args[2]]
     IN /\ a.rows = b.rows
        /\ calls' = Append(calls, Event(Stmt, est[Stmt.recv].id, est[Stmt.recv].pool,
                                        <<a, b>>, Stmt.label))
        /\ \E correct \in 0..Cardinality(a.rows) :
             printed' = Append(printed,
               [line |-> Stmt.line, label |-> Stmt.label, est |-> Stmt.recv,
                obj |-> est[Stmt.recv].id, cls |-> est[Stmt.recv].cls,
                correct |-> correct, total |-> Cardinality(a.rows)])
  /\ pc' = pc + 1
  /\ UNCHANGED <<failed, nextId, arr, scalar, model, pool_classifiers, est, Out5>>

\* the library call of the current statement raises; nothing catches it
Fail ==
  /\ Running
  /\ failed' = TRUE
  /\ UNCHANGED <<pc, nextId, arr, scalar, model, pool_classifiers, est,
                 calls, printed, Out5>>

Next ==
  \/ Load
  \/ Split
  \/ NewScaler
  \/ FitTransform
  \/ Transform
  \/ NewModel
  \/ NewPool
  \/ FitPool
  \/ Construct
  \/ Fit
  \/ ScorePrint
  \/ Fail

Spec == Init /\ [][Next]_vars

Done == pc = NSteps + 1


\* ------------------------------------------------------------------------
\* Properties
\* ------------------------------------------------------------------------
CallIdx == 1..Len(calls)
PrintIdx == 1..Len(printed)
AllConstructed == \A e \in EstVars : est[e].id # 0
AllFitted == \A e \in EstVars : est[e].fitted
TestRows == arr["X_test"].rows
TrainRows == arr["X_train"].rows
DselRows == arr["X_dsel"].rows
FitOps == {"fit_transform", "pool_fit", "fit"}

\* the technique each printed label names
LabelClass(label) ==
  CASE label = "OLA" -> "OLA"
    [] label = "A priori" -> "APriori"
    [] label = "KNORA-Union" -> "KNORAU"
    [] label = "KNORA-Eliminate" -> "KNORAE"
    [] label = "DESP" -> "DESP"
    [] label = "META-DES" -> "METADES"
    [] OTHER -> "?"

\* C1: in a completed run every fitted dynamic-selection estimator has a
\* score call on it whose result is printed.
C1_EveryFittedEstimatorScored ==
  Done => \A e \in EstVars :
            est[e].fitted => \E i \in PrintIdx : printed[i].obj = est[e].id

\* C2: every printed line reports the score of the estimator constructed as
\* the technique its label names, and no estimator is printed under two labels.
C2_LabelNamesScoredEstimator ==
  /\ \A i \in PrintIdx : printed[i].cls = LabelClass(printed[i].label)
  /\ \A i, j \in PrintIdx :
       printed[i].obj = printed[j].obj => printed[i].label = printed[j].label

\* C3: in a completed run the bagging pool's own test accuracy is computed
\* (a score call on the pool object) in addition to the techniques' accuracies.
C3_BaggingAccuracyReported ==
  Done => \E i \in CallIdx :
            calls[i].op = "score" /\ calls[i].obj = pool_classifiers.id

\* C4: once all estimators are constructed there are exactly three of the DCS
\* family and exactly three of the DES family, each constructed under the
\* heading of its own family.
C4_ThreeDcsThreeDes ==
  AllConstructed =>
    /\ Cardinality({e \in EstVars : Family(est[e].cls) = "dcs"}) = 3
    /\ Cardinality({e \in EstVars : Family(est[e].cls) = "des"}) = 3
    /\ \A i \in CallIdx :
         calls[i].op = "construct" => calls[i].note = Family(est[calls[i].recv].cls)

\* C5: every estimator holds the one pool object bound to pool_classifiers,
\* every estimator fit receives the (X_dsel, y_dsel) objects made by the second
\* split, and those variables still name the same objects at every later call.
C5_SamePoolAndDsel ==
  /\ \A e \in EstVars : est[e].id # 0 => est[e].pool = pool_classifiers.id
  /\ \A i \in CallIdx :
       calls[i].op \in {"construct", "fit", "score"} =>
         calls[i].ref = pool_classifiers.id /\ pool_classifiers.id # 0
  /\ \A i \in CallIdx :
       calls[i].op = "fit" =>
         /\ calls[i].args = <<arr["X_dsel"], arr["y_dsel"]>>
         /\ arr["X_dsel"].by = Cell3[Len(Cell3)].line
         /\ arr["y_dsel"].by = Cell3[Len(Cell3)].line
         /\ arr["X_dsel"].rows = arr["y_dsel"].rows

C5_Witness ==
  Done /\ AllFitted /\ Cardinality({est[e].pool : e \in EstVars}) = 1
       /\ Cardinality({est[e].fitX : e \in EstVars}) = 1

\* C6: the pool is built with n_estimators = 10, and the pool the notebook
\* shows under cell 5 has 10 estimators.
C6_PoolOfTen ==
  /\ pool_classifiers.id # 0 => pool_classifiers.n_estimators = 10
  /\ Out5.n_estimators = 10

\* C7: once a step has raised, the run has ended: the failing step has no
\* effect, no later step runs, nothing more is printed, nothing is retried.
C7_FailureTerminates ==
  [][(failed \/ failed') =>
       /\ failed'
       /\ UNCHANGED <<pc, nextId, arr, scalar, model, pool_classifiers, est,
                      calls, printed, Out5>>]_vars

C7_Witness ==
  failed /\ Program[pc].op = "score" /\ Len(printed) = 2 /\ Len(calls) = pc - 1

\* C8: the statements run once each in source order; the first split precedes
\* the scaler's fit, which precedes the second split; the pool is fitted before
\* any estimator is constructed or fitted; an estimator is fitted before scored.
C8_StepsInOrder ==
  /\ Len(calls) = pc - 1
  /\ \A i \in CallIdx : i < Len(calls) => calls[i].line < calls[i + 1].line
  /\ \A i \in CallIdx :
       calls[i].op = "fit_transform" =>
         \E j \in 1..(i - 1) : calls[j].op = "split" /\ calls[i].args[1].by = calls[j].line
  /\ \A i, j \in CallIdx :
       (i < j /\ calls[i].op = "split" /\ calls[j].op = "split") =>
         \E k \in (i + 1)..(j - 1) :
           calls[k].op = "fit_transform" /\ calls[j].args[1].by = calls[k].line
  /\ \A i \in CallIdx :
       calls[i].op \in {"construct", "fit"} =>
         \E j \in 1..(i - 1) : calls[j].op = "pool_fit" /\ calls[j].obj = calls[i].ref
  /\ \A i \in CallIdx :
       calls[i].op = "score" =>
         \E j \in 1..(i - 1) : calls[j].op = "fit" /\ calls[j].obj = calls[i].obj

C8_Witness ==
  Done /\ Len(calls) = NSteps /\ Len(printed) = Len(Cell11)

\* C9: no test sample is an input of any fit (scaler, pool, estimator); test
\* samples only go through split, transform (with statistics of the train
\* portion) and score; the scaler's fit saw the training subset and the DSEL.
C9_TestNeverFitted ==
  /\ \A i \in CallIdx : \A k \in 1..Len(calls[i].args) :
       calls[i].args[k].rows \cap TestRows # {} =>
         calls[i].op \in {"split", "transform", "score"}
  /\ scalar.fit_rows \cap TestRows = {}
  /\ pool_classifiers.fit_rows \cap TestRows = {}
  /\ \A e \in EstVars : est[e].fit_rows \cap TestRows = {}
  /\ arr["X_test"].stats \cap TestRows = {}
  /\ arr["X_test"].scaled => arr["X_test"].stats = scalar.fit_rows /\ scalar.fitted
  /\ \A i \in CallIdx : calls[i].op = "score" => calls[i].args[1].rows = TestRows
  /\ arr["X_dsel"].id # 0 =>
       /\ scalar.fit_rows = TrainRows \cup DselRows
       /\ TrainRows # {} /\ DselRows # {}

C9_Witness ==
  /\ Done /\ TestRows # {} /\ arr["X_test"].scaled
  /\ pool_classifiers.fitted /\ AllFitted
  /\ DselRows # {} /\ DselRows \subseteq scalar.fit_rows

\* C10: after the second split the training subset, the DSEL and the test set
\* are pairwise disjoint and together are the whole dataset; the pool is fitted
\* on the training subset only, the estimators on the DSEL only.
C10_Partition ==
  arr["X_dsel"].id # 0 =>
    /\ TrainRows \cap DselRows = {}
    /\ TrainRows \cap TestRows = {}
    /\ DselRows \cap TestRows = {}
    /\ TrainRows \cup DselRows \cup TestRows = arr["X"].rows
    /\ arr["X"].rows = Samples
    /\ arr["y_train"].rows = TrainRows
    /\ arr["y_dsel"].rows = DselRows
    /\ arr["y_test"].rows = TestRows
    /\ pool_classifiers.fitted => pool_classifiers.fit_rows = TrainRows
    /\ \A e \in EstVars : est[e].fitted => est[e].fit_rows = DselRows

C10_Witness ==
  /\ arr["X_dsel"].id # 0 /\ pool_classifiers.fitted
  /\ \E e \in EstVars : est[e].fitted
  /\ TrainRows # {} /\ DselRows # {} /\ TestRows # {}
  /\ Len(printed) > 0

====
